---- MODULE Spec2Model ----
(***************************************************************************)
(* SuperBot dashboard front end: the token-keyed live page, the staff      *)
(* conversation list and viewer, the api client and the i18n provider,     *)
(* as state machines driven by user actions, timers and backend responses. *)
(* The backend (FastAPI) is not part of the sources; its replies are       *)
(* modelled from the specification and the API documentation.              *)
(***************************************************************************)
EXTENDS Integers, Sequences, FiniteSets, TLC

\* ---------------------------------------------------------------- bounds
MaxMsgs == 2
MaxClock == 4
MaxInflight == 1
MaxResolves == 1

\* "pausa bot por 3h": the hand-off window, in clock units (hours)
PauseWindow == 3

Tenants == {"t1", "t2"}
\* the tenant that owns the one modelled conversation, and the tenant of
\* the 'client' user
OwnTenant == "t1"
Tokens == {"tokPortal", "tokLive", "tokOther"}
\* two of the locales of LOCALE_LABELS: the default and another
Locales == {"pt", "en"}

VARIABLES
  \* backend and environment
  clock, srv, expired,
  \* browser local storage
  lsToken, lsUser, lsTenant,
  \* location
  route, routeProj, token,
  \* live page (PortalPage / ConversationView)
  portalType, selectedConv, conv,
  \* staff viewer (useConversation)
  conversation,
  \* state shared by name between the mounted page components
  conversations, loading, error, replyText, sending, statusLoading, sendError,
  \* network: the responses under way; the run's limits on the requests
  \* that overlap and on the messages of the conversation
  inflight, cap,
  \* i18n provider, configuration page and the tenants' stored settings
  locale, lsLocale, srvLocale, resolves, cfgTenant, save,
  \* api client module state and its requests
  apiUrl, initPromise, baseURL, pending, wire,
  \* history kept with the api client: how the last session of this
  \* browser began or ended, and whether the active tenant in local storage
  \* was written during the present session
  session, chosen

vars == << clock, srv, expired, lsToken, lsUser, lsTenant, route, routeProj,
           token, portalType, selectedConv, conv, conversation, conversations,
           loading, error, replyText, sending, statusLoading, sendError,
           inflight, locale, lsLocale, srvLocale, resolves, cfgTenant, save,
           apiUrl, initPromise, baseURL, pending, wire, session, chosen,
           cap >>

i18nVars == << locale, lsLocale, srvLocale, resolves, cfgTenant, save >>
apiVars == << apiUrl, initPromise, baseURL, pending, wire >>
\* what the pages of this section leave to the provider and the client
histVars == << session, chosen >>
auxVars == << i18nVars, apiVars, histVars, cap >>

\* ------------------------------------------------------- backend (spec)
NoConv == [status |-> "null", msgs |-> 0, until |-> 0]

\* an end customer writes: the conversation is created or grows
SrvCustomer(s) ==
  [status |-> IF s.status = "null" THEN "open" ELSE s.status,
   msgs |-> s.msgs + 1, until |-> s.until]

\* PATCH .../status: a hand-off carries human_takeover_until
SrvSetStatus(s, st, now) ==
  [status |-> st, msgs |-> s.msgs,
   until |-> IF st = "handoff" THEN now + PauseWindow ELSE 0]

\* POST .../send: a human reply; while the bot is active it pauses the bot
SrvSend(s, now) ==
  [status |-> "handoff", msgs |-> s.msgs + 1,
   until |-> IF s.status = "handoff" THEN s.until ELSE now + PauseWindow]

\* the hand-off window is bounded: past human_takeover_until the bot resumes
SrvExpire(s, now) ==
  IF s.status = "handoff" /\ now > s.until
  THEN [s EXCEPT !.status = "open", !.until = 0]
  ELSE s

TokenType(tk) ==
  IF tk = "tokPortal" THEN "portal"
  ELSE IF tk = "tokLive" THEN "live_view" ELSE "other"

\* the conversations of a tenant, as the list endpoints return them
SrvList(t) == IF t = OwnTenant /\ srv.status # "null" THEN << srv >> ELSE << >>

\* tenant isolation: a client reads only its own tenant, an admin any
SrvAllows(user, t) == user = "admin" \/ (user = "client" /\ t = OwnTenant)

\* ------------------------------------------------------------- messages
\* a request in flight together with the reply the backend gave it:
\* kind names the call site, proj the tenant the URL names, st the status
\* a PATCH asks for
Resp(kind, ok, type, snap, list, st) ==
  [kind |-> kind, proj |-> "none", st |-> st, ok |-> ok, type |-> type,
   snap |-> snap, list |-> list]

ForProject(r, p) == [r EXCEPT !.proj = p]

CanIssue == Cardinality(inflight) < cap.inflight

\* ------------------------------------------------------------ live page
\* GET /api/live/{token}: what the backend answers for a token
LiveDetectResp(tk) ==
  IF tk \in expired THEN Resp("detect", FALSE, "none", NoConv, << >>, "none")
  ELSE IF TokenType(tk) = "portal"
    THEN Resp("detect", TRUE, "portal", NoConv, << >>, "none")
  ELSE IF TokenType(tk) = "live_view"
    THEN IF srv.status = "null"
         THEN Resp("detect", FALSE, "none", NoConv, << >>, "none")
         ELSE Resp("detect", TRUE, "live_view", srv, << >>, "none")
  ELSE Resp("detect", TRUE, "other", NoConv, << >>, "none")

\* GET /api/live/{token}/conversations
LiveListResp(tk) ==
  IF tk \in expired THEN Resp("list", FALSE, "none", NoConv, << >>, "none")
  ELSE Resp("list", TRUE, "none", NoConv, SrvList(OwnTenant), "none")

\* GET /api/live/{token}/conversations/{id}
LiveConvResp(kind, tk, s) ==
  IF tk \in expired \/ s.status = "null"
  THEN Resp(kind, FALSE, "none", NoConv, << >>, "none")
  ELSE Resp(kind, TRUE, "none", s, << >>, "none")

\* POST/PATCH through the live token
LiveWriteResp(kind, tk, st) ==
  Resp(kind, tk \notin expired, "none", NoConv, << >>, st)

\* a detection that takes every non-portal reply for a conversation
DetectTypeMut(data) ==
  IF data.type = "portal" THEN "portal" ELSE "live_view"

\* the branch of the token-type detection
DetectType(data) ==
  IF data.type = "portal" THEN "portal"
  ELSE IF data.snap # NoConv THEN "live_view"
  ELSE "null"

\* what PortalPage renders
Screen ==
  IF route # "live" THEN "none"
  ELSE IF loading THEN "loading"
  ELSE IF error /\ Len(conversations) = 0 /\ selectedConv = NoConv THEN "error"
  ELSE IF selectedConv # NoConv THEN "conversation"
  ELSE "list"

\* a view that offers the reply box and the buttons to every token type
canActMut == TRUE

canAct == portalType = "portal"

isHandoff == conv.status = "handoff"

\* the status button the conversation view offers
LiveStatusButton(status) == IF status # "handoff" THEN "handoff" ELSE "open"

ViewMounted == Screen = "conversation"

\* responses that belong to the mounted ConversationView
ViewKinds == {"poll", "send", "sendRefetch", "status", "statusRefetch",
              "followup"}

PageFresh ==
  /\ portalType' = "null"
  /\ selectedConv' = NoConv
  /\ conv' = NoConv
  /\ conversation' = NoConv
  /\ conversations' = << >>
  /\ error' = FALSE
  /\ replyText' = FALSE
  /\ sending' = FALSE
  /\ statusLoading' = FALSE
  /\ sendError' = FALSE

srvVars == << clock, srv, expired >>
lsVars == << lsToken, lsUser, lsTenant >>
locVars == << route, routeProj, token >>
viewVars == << replyText, sending, statusLoading, sendError >>

\* an external visitor (a browser without a dashboard session) opens
\* /live/{tk}: PortalPage mounts and detects the token type
VisitLive(tk) ==
  /\ lsUser = "none"
  /\ route' = "live"
  /\ token' = tk
  /\ routeProj' = "none"
  /\ PageFresh
  /\ loading' = TRUE
  /\ inflight' = {LiveDetectResp(tk)}
  /\ UNCHANGED << srvVars, auxVars, lsVars >>

loadConversations ==
  /\ inflight' = inflight \cup {LiveListResp(token)}

DeliverDetect(r) ==
  /\ route = "live"
  /\ r \in inflight
  /\ r.kind = "detect"
  /\ IF r.ok
     THEN LET pt == DetectType(r) IN
          IF pt = "portal"
          THEN /\ portalType' = "portal"
               /\ inflight' = (inflight \ {r}) \cup {LiveListResp(token)}
               /\ UNCHANGED << selectedConv, conv, loading, error >>
          ELSE IF pt = "live_view"
          THEN /\ portalType' = "live_view"
               /\ selectedConv' = r.snap
               /\ conv' = r.snap
               /\ loading' = FALSE
               /\ inflight' = inflight \ {r}
               /\ UNCHANGED << error >>
          ELSE /\ inflight' = inflight \ {r}
               /\ UNCHANGED << portalType, selectedConv, conv, loading, error >>
     ELSE /\ error' = TRUE
          /\ loading' = FALSE
          /\ inflight' = inflight \ {r}
          /\ UNCHANGED << portalType, selectedConv, conv >>
  /\ UNCHANGED << srvVars, auxVars, lsVars, locVars, conversation, conversations,
                  viewVars >>

\* a list load that empties the list when the request is rejected
DeliverListMut(r) ==
  /\ route = "live"
  /\ r \in inflight
  /\ r.kind = "list"
  /\ conversations' = IF r.ok THEN r.list ELSE << >>
  /\ error' = ~r.ok
  /\ loading' = FALSE
  /\ inflight' = inflight \ {r}
  /\ UNCHANGED << srvVars, auxVars, lsVars, locVars, portalType, selectedConv, conv,
                  conversation, viewVars >>

DeliverList(r) ==
  /\ route = "live"
  /\ r \in inflight
  /\ r.kind = "list"
  /\ IF r.ok
     THEN /\ conversations' = r.list
          /\ error' = FALSE
     ELSE /\ error' = TRUE
          /\ UNCHANGED conversations
  /\ loading' = FALSE
  /\ inflight' = inflight \ {r}
  /\ UNCHANGED << srvVars, auxVars, lsVars, locVars, portalType, selectedConv, conv,
                  conversation, viewVars >>

\* setInterval(loadConversations, 10000)
ListPollTick ==
  /\ route = "live"
  /\ portalType = "portal"
  /\ CanIssue
  /\ loadConversations
  /\ UNCHANGED << srvVars, auxVars, lsVars, locVars, portalType, selectedConv, conv,
                  conversation, conversations, loading, error, viewVars >>

openConversation ==
  /\ Screen = "list"
  /\ Len(conversations) > 0
  /\ CanIssue
  /\ inflight' = inflight \cup {LiveConvResp("open", token, srv)}
  /\ UNCHANGED << srvVars, auxVars, lsVars, locVars, portalType, selectedConv, conv,
                  conversation, conversations, loading, error, viewVars >>

DeliverOpen(r) ==
  /\ route = "live"
  /\ r \in inflight
  /\ r.kind = "open"
  /\ IF r.ok
     THEN /\ selectedConv' = r.snap
          \* useState(initial): only a view that mounts now takes the value
          /\ conv' = IF selectedConv = NoConv THEN r.snap ELSE conv
          /\ UNCHANGED error
     ELSE /\ error' = TRUE
          /\ UNCHANGED << selectedConv, conv >>
  /\ inflight' = inflight \ {r}
  /\ UNCHANGED << srvVars, auxVars, lsVars, locVars, portalType, conversation,
                  conversations, loading, viewVars >>

\* onBack: () => { setSelectedConv(null); loadConversations(); }
onBack ==
  /\ ViewMounted
  /\ portalType = "portal"
  /\ selectedConv' = NoConv
  /\ conv' = NoConv
  /\ replyText' = FALSE
  /\ sending' = FALSE
  /\ statusLoading' = FALSE
  /\ sendError' = FALSE
  /\ inflight' = {x \in inflight : x.kind \notin ViewKinds}
                   \cup {LiveListResp(token)}
  /\ UNCHANGED << srvVars, auxVars, lsVars, locVars, portalType, conversation,
                  conversations, loading, error >>

\* ------------------------------------------- live page: ConversationView
pageVars == << portalType, selectedConv, conversation, conversations,
               loading, error >>

\* setInterval(refresh, 3000)
ViewPollTick ==
  /\ ViewMounted
  /\ CanIssue
  /\ inflight' = inflight \cup {LiveConvResp("poll", token, srv)}
  /\ UNCHANGED << srvVars, auxVars, lsVars, locVars, pageVars, conv, viewVars >>

\* a poll whose reply is dropped
DeliverPollMut(r) ==
  /\ ViewMounted
  /\ r \in inflight
  /\ r.kind = "poll"
  /\ inflight' = inflight \ {r}
  /\ UNCHANGED << srvVars, auxVars, lsVars, locVars, pageVars, conv, viewVars >>

\* try { setConv(data) } catch {}
DeliverPoll(r) ==
  /\ ViewMounted
  /\ r \in inflight
  /\ r.kind = "poll"
  /\ conv' = IF r.ok THEN r.snap ELSE conv
  /\ inflight' = inflight \ {r}
  /\ UNCHANGED << srvVars, auxVars, lsVars, locVars, pageVars, viewVars >>

\* the reply box exists only when canAct; it is disabled while sending
Live_typeReply ==
  /\ ViewMounted
  /\ canAct
  /\ ~sending
  /\ ~replyText
  /\ replyText' = TRUE
  /\ UNCHANGED << srvVars, auxVars, lsVars, locVars, pageVars, conv, sending,
                  statusLoading, sendError, inflight >>

Live_handleSend ==
  /\ ViewMounted
  /\ canAct
  /\ replyText /\ ~sending
  /\ CanIssue
  /\ token \in expired \/ srv.msgs < cap.msgs
  /\ sendError' = FALSE
  /\ sending' = TRUE
  /\ srv' = IF token \in expired THEN srv ELSE SrvSend(srv, clock)
  /\ inflight' = inflight \cup {LiveWriteResp("send", token, "none")}
  /\ UNCHANGED << clock, expired, auxVars, lsVars, locVars, pageVars, conv, replyText,
                  statusLoading >>

Live_deliverSend(r) ==
  /\ ViewMounted
  /\ r \in inflight
  /\ r.kind = "send"
  /\ IF r.ok
     THEN /\ replyText' = FALSE
          /\ inflight' = (inflight \ {r})
                           \cup {LiveConvResp("sendRefetch", token, srv)}
          /\ UNCHANGED << sending, sendError >>
     ELSE /\ sendError' = TRUE
          /\ sending' = FALSE
          /\ inflight' = inflight \ {r}
          /\ UNCHANGED << replyText >>
  /\ UNCHANGED << srvVars, auxVars, lsVars, locVars, pageVars, conv, statusLoading >>

Live_deliverSendRefetch(r) ==
  /\ ViewMounted
  /\ r \in inflight
  /\ r.kind = "sendRefetch"
  /\ conv' = IF r.ok THEN r.snap ELSE conv
  /\ sendError' = IF r.ok THEN sendError ELSE TRUE
  /\ sending' = FALSE
  /\ inflight' = inflight \ {r}
  /\ UNCHANGED << srvVars, auxVars, lsVars, locVars, pageVars, replyText,
                  statusLoading >>

\* the Assumir / Devolver ao Bot button
handleStatusChange ==
  /\ ViewMounted
  /\ canAct
  /\ ~statusLoading
  /\ CanIssue
  /\ LET newStatus == LiveStatusButton(conv.status) IN
       /\ statusLoading' = TRUE
       /\ srv' = IF token \in expired THEN srv
                 ELSE SrvSetStatus(srv, newStatus, clock)
       /\ inflight' = inflight \cup {LiveWriteResp("status", token, newStatus)}
  /\ UNCHANGED << clock, expired, auxVars, lsVars, locVars, pageVars, conv, replyText,
                  sending, sendError >>

Live_deliverStatus(r) ==
  /\ ViewMounted
  /\ r \in inflight
  /\ r.kind = "status"
  /\ IF r.ok
     THEN /\ inflight' = (inflight \ {r})
                           \cup {LiveConvResp("statusRefetch", token, srv)}
          /\ UNCHANGED << statusLoading, sendError >>
     ELSE /\ sendError' = TRUE
          /\ statusLoading' = FALSE
          /\ inflight' = inflight \ {r}
  /\ UNCHANGED << srvVars, auxVars, lsVars, locVars, pageVars, conv, replyText,
                  sending >>

Live_deliverStatusRefetch(r) ==
  /\ ViewMounted
  /\ r \in inflight
  /\ r.kind = "statusRefetch"
  /\ conv' = IF r.ok THEN r.snap ELSE conv
  /\ sendError' = IF r.ok THEN sendError ELSE TRUE
  /\ statusLoading' = FALSE
  /\ inflight' = inflight \ {r}
  /\ UNCHANGED << srvVars, auxVars, lsVars, locVars, pageVars, replyText, sending >>

\* the follow-up scheduler, rendered only when canAct
handleFollowup ==
  /\ ViewMounted
  /\ canAct
  /\ CanIssue
  /\ inflight' = inflight \cup {LiveWriteResp("followup", token, "none")}
  /\ UNCHANGED << srvVars, auxVars, lsVars, locVars, pageVars, conv, viewVars >>

Live_deliverFollowup(r) ==
  /\ ViewMounted
  /\ r \in inflight
  /\ r.kind = "followup"
  /\ sendError' = IF r.ok THEN sendError ELSE TRUE
  /\ inflight' = inflight \ {r}
  /\ UNCHANGED << srvVars, auxVars, lsVars, locVars, pageVars, conv, replyText,
                  sending, statusLoading >>

\* ------------------------------------------------------ staff dashboard
\* user.role === 'admin' ? localStorage.getItem('active_tenant_id')
\*                        : user.client_id
TenantOf ==
  IF lsUser = "admin" THEN lsTenant
  ELSE IF lsUser = "client" THEN OwnTenant
  ELSE "none"

\* replies of the JWT-protected API to the logged-in user
ApiListResp(kind, t) ==
  ForProject(IF SrvAllows(lsUser, t)
             THEN Resp(kind, TRUE, "none", NoConv, SrvList(t), "none")
             ELSE Resp(kind, FALSE, "none", NoConv, << >>, "none"), t)

ApiConvOk(p) == SrvAllows(lsUser, p) /\ p = OwnTenant /\ srv.status # "null"

ApiConvResp(kind, p, s) ==
  ForProject(IF SrvAllows(lsUser, p) /\ p = OwnTenant /\ s.status # "null"
             THEN Resp(kind, TRUE, "none", s, << >>, "none")
             ELSE Resp(kind, FALSE, "none", NoConv, << >>, "none"), p)

ApiWriteResp(kind, p, st) ==
  ForProject(Resp(kind, ApiConvOk(p), "none", NoConv, << >>, st), p)

DashRoutes == {"dash", "dash_list", "dash_viewer"}

\* the request a /dash page issues from its mount effect
MountResp(r, p) ==
  IF r = "dash" THEN ApiListResp("analytics", TenantOf)
  ELSE IF r = "dash_list" THEN ApiListResp("dlist", TenantOf)
  ELSE ApiConvResp("fetch", p, srv)

GoLogin ==
  /\ route' = "login"
  /\ routeProj' = "none"
  /\ token' = "none"
  /\ PageFresh
  /\ loading' = FALSE
  /\ inflight' = {}

\* /admin: AdminDashboard loads the client list
GoAdmin ==
  /\ route' = "admin"
  /\ routeProj' = "none"
  /\ token' = "none"
  /\ PageFresh
  /\ loading' = TRUE
  /\ inflight' = {Resp("clients", TRUE, "none", NoConv, << >>, "none")}

GoDash(r, p) ==
  /\ route' = r
  /\ routeProj' = IF r = "dash_viewer" THEN p ELSE "none"
  /\ token' = "none"
  /\ PageFresh
  /\ loading' = TRUE
  /\ inflight' = {MountResp(r, p)}

\* DashLayout guard, then the page's own mount effect
VisitDash(r, p) ==
  /\ r \in DashRoutes
  /\ IF lsUser = "none" THEN GoLogin
     ELSE IF TenantOf = "none" THEN GoAdmin
     ELSE GoDash(r, p)
  /\ UNCHANGED << srvVars, auxVars, lsVars >>

\* AdminDashboard role guard
VisitAdmin ==
  /\ IF lsUser = "none" THEN GoLogin
     ELSE IF lsUser # "admin" THEN GoDash("dash", "none")
     ELSE GoAdmin
  /\ UNCHANGED << srvVars, auxVars, lsVars >>

VisitLogin ==
  /\ route # "login"
  /\ GoLogin
  /\ UNCHANGED << srvVars, auxVars, lsVars >>

\* LoginPage.handleLogin, successful POST /api/auth/login
handleLogin(role) ==
  /\ route = "login"
  /\ lsToken' = "jwt"
  /\ lsUser' = role
  /\ lsTenant' = IF role = "client" THEN OwnTenant ELSE lsTenant
  /\ route' = IF role = "admin" THEN "admin" ELSE "dash"
  /\ routeProj' = "none"
  /\ token' = "none"
  /\ PageFresh
  /\ loading' = TRUE
  /\ inflight' = IF role = "admin"
                 THEN {Resp("clients", TRUE, "none", NoConv, << >>, "none")}
                 ELSE {ForProject(Resp("analytics", TRUE, "none", NoConv,
                                       SrvList(OwnTenant), "none"),
                                  OwnTenant)}
  /\ UNCHANGED << srvVars, auxVars >>

\* Sidebar.handleLogout and AdminDashboard.handleLogout: lsTenant stands
\* for active_tenant_id and active_tenant_name, written and removed together
handleLogout ==
  /\ route \in DashRoutes \cup {"admin"}
  /\ lsToken' = "none"
  /\ lsUser' = "none"
  /\ lsTenant' = "none"
  /\ GoLogin
  /\ UNCHANGED << srvVars, auxVars >>

handleOpenDashboard(c) ==
  /\ route = "admin"
  /\ ~loading
  /\ lsTenant' = c
  /\ route' = "dash"
  /\ routeProj' = "none"
  /\ token' = "none"
  /\ PageFresh
  /\ loading' = TRUE
  /\ inflight' = {ForProject(Resp("analytics", TRUE, "none", NoConv,
                                  SrvList(c), "none"), c)}
  /\ UNCHANGED << srvVars, auxVars, lsToken, lsUser >>

\* /dash/agents: the page's mount effect calls loadData(tId) for whoever
\* passed DashLayout; /dash/rag and /dash/config load the same way
GoAgents ==
  /\ route' = "dash_agents"
  /\ routeProj' = "none"
  /\ token' = "none"
  /\ PageFresh
  /\ loading' = TRUE
  /\ inflight' = {ApiListResp("agents", TenantOf)}

\* the page is opened by its address: DashLayout guard, then the mount
\* effect of ElevenLabsAgentsPage
VisitAgents ==
  /\ IF lsUser = "none" THEN GoLogin
     ELSE IF TenantOf = "none" THEN GoAdmin
     ELSE GoAgents
  /\ UNCHANGED << srvVars, auxVars, lsVars >>

\* the sidebar entry flagged adminOnly:
\* navItems.filter(item => !item.adminOnly || user?.role === 'admin')
Sidebar_openAgents ==
  /\ route \in DashRoutes
  /\ lsUser = "admin"
  /\ GoAgents
  /\ UNCHANGED << srvVars, auxVars, lsVars >>

Agents_deliver(r) ==
  /\ route = "dash_agents"
  /\ r \in inflight
  /\ r.kind = "agents"
  /\ loading' = FALSE
  /\ error' = ~r.ok
  /\ inflight' = inflight \ {r}
  /\ UNCHANGED << srvVars, auxVars, lsVars, locVars, portalType, selectedConv, conv,
                  conversation, conversations, viewVars >>

\* pages that only load and show data
DeliverPlain(r) ==
  /\ route \in {"admin", "dash"}
  /\ r \in inflight
  /\ r.kind \in {"clients", "analytics"}
  /\ loading' = FALSE
  /\ error' = ~r.ok
  /\ inflight' = inflight \ {r}
  /\ UNCHANGED << srvVars, auxVars, lsVars, locVars, portalType, selectedConv, conv,
                  conversation, conversations, viewVars >>

\* ---------------------------------------------- staff conversation list
ListShown == route = "dash_list" /\ ~loading /\ ~error

\* the quick status button of a list row
ListStatusButton(status) == IF status # "handoff" THEN "handoff" ELSE "open"

Dash_deliverList(r) ==
  /\ route = "dash_list"
  /\ r \in inflight
  /\ r.kind = "dlist"
  /\ conversations' = IF r.ok THEN r.list ELSE conversations
  /\ error' = IF r.ok THEN error ELSE TRUE
  /\ loading' = FALSE
  /\ inflight' = inflight \ {r}
  /\ UNCHANGED << srvVars, auxVars, lsVars, locVars, portalType, selectedConv, conv,
                  conversation, viewVars >>

\* PATCH /api/conversations/{conv.project_id}/{conv.conversation_id}/status
handleQuickStatus ==
  /\ ListShown
  /\ Len(conversations) > 0
  /\ CanIssue
  /\ LET newStatus == ListStatusButton(conversations[1].status) IN
       /\ srv' = IF ApiConvOk(OwnTenant)
                 THEN SrvSetStatus(srv, newStatus, clock) ELSE srv
       /\ inflight' = inflight \cup {ApiWriteResp("quick", OwnTenant, newStatus)}
  /\ UNCHANGED << clock, expired, auxVars, lsVars, locVars, portalType, selectedConv,
                  conv, conversation, conversations, loading, error,
                  viewVars >>

Dash_deliverQuick(r) ==
  /\ route = "dash_list"
  /\ r \in inflight
  /\ r.kind = "quick"
  /\ conversations' =
       IF r.ok /\ Len(conversations) > 0
       THEN [conversations EXCEPT ![1].status = r.st]
       ELSE conversations
  /\ inflight' = inflight \ {r}
  /\ UNCHANGED << srvVars, auxVars, lsVars, locVars, portalType, selectedConv, conv,
                  conversation, loading, error, viewVars >>

\* a row click: router.push(/dash/conversations/{project_id}/{conversation_id})
openViewer ==
  /\ ListShown
  /\ Len(conversations) > 0
  /\ GoDash("dash_viewer", OwnTenant)
  /\ UNCHANGED << srvVars, auxVars, lsVars >>

\* ----------------------------------- staff viewer (useConversation hook)
ViewerShown == route = "dash_viewer" /\ ~loading /\ conversation # NoConv

\* a viewer that always offers the takeover
ViewerStatusButtonMut(status) == "handoff"

\* the Assumir / Devolver ao Bot button of the viewer
ViewerStatusButton(status) == IF status # "handoff" THEN "handoff" ELSE "open"

dashVars == << portalType, selectedConv, conv, conversations >>

\* fetchConversation, from the request on
fetchConversation(kind) ==
  /\ inflight' = inflight \cup {ApiConvResp(kind, routeProj, srv)}

\* a fetch that keeps the conversation loaded first
FetchDoneMut(r) ==
  /\ conversation' = IF r.ok /\ conversation = NoConv THEN r.snap
                     ELSE conversation
  /\ error' = ~r.ok
  /\ loading' = FALSE

\* fetchConversation, from the response on
FetchDone(r) ==
  /\ conversation' = IF r.ok THEN r.snap ELSE conversation
  /\ error' = ~r.ok
  /\ loading' = FALSE

\* setInterval(fetchConversation, pollInterval)
Viewer_pollTick ==
  /\ route = "dash_viewer"
  /\ CanIssue
  /\ fetchConversation("fetch")
  /\ UNCHANGED << srvVars, auxVars, lsVars, locVars, dashVars, conversation, loading,
                  error, viewVars >>

\* the refresh button
refresh ==
  /\ ViewerShown
  /\ CanIssue
  /\ fetchConversation("fetch")
  /\ UNCHANGED << srvVars, auxVars, lsVars, locVars, dashVars, conversation, loading,
                  error, viewVars >>

Viewer_deliverFetch(r) ==
  /\ route = "dash_viewer"
  /\ r \in inflight
  /\ r.kind = "fetch"
  /\ FetchDone(r)
  /\ inflight' = inflight \ {r}
  /\ UNCHANGED << srvVars, auxVars, lsVars, locVars, dashVars, viewVars >>

Viewer_typeReply ==
  /\ ViewerShown
  /\ ~sending
  /\ ~replyText
  /\ replyText' = TRUE
  /\ UNCHANGED << srvVars, auxVars, lsVars, locVars, dashVars, conversation, loading,
                  error, sending, statusLoading, sendError, inflight >>

\* handleSend without the look at `sending`
Viewer_handleSendMut ==
  /\ ViewerShown
  /\ replyText
  /\ CanIssue
  /\ ~ApiConvOk(routeProj) \/ srv.msgs < cap.msgs
  /\ sendError' = FALSE
  /\ sending' = TRUE
  /\ srv' = IF ApiConvOk(routeProj) THEN SrvSend(srv, clock) ELSE srv
  /\ inflight' = inflight \cup {ApiWriteResp("vsend", routeProj, "none")}
  /\ UNCHANGED << clock, expired, auxVars, lsVars, locVars, dashVars, conversation,
                  loading, error, replyText, statusLoading >>

\* handleSend -> sendMessage
Viewer_handleSend ==
  /\ ViewerShown
  /\ replyText /\ ~sending
  /\ CanIssue
  /\ ~ApiConvOk(routeProj) \/ srv.msgs < cap.msgs
  /\ sendError' = FALSE
  /\ sending' = TRUE
  /\ srv' = IF ApiConvOk(routeProj) THEN SrvSend(srv, clock) ELSE srv
  /\ inflight' = inflight \cup {ApiWriteResp("vsend", routeProj, "none")}
  /\ UNCHANGED << clock, expired, auxVars, lsVars, locVars, dashVars, conversation,
                  loading, error, replyText, statusLoading >>

Viewer_deliverSend(r) ==
  /\ route = "dash_viewer"
  /\ r \in inflight
  /\ r.kind = "vsend"
  /\ IF r.ok
     THEN /\ inflight' = (inflight \ {r})
                           \cup {ApiConvResp("vsendFetch", routeProj, srv)}
          /\ UNCHANGED << sending, sendError >>
     ELSE /\ sending' = FALSE
          /\ sendError' = TRUE
          /\ inflight' = inflight \ {r}
  /\ UNCHANGED << srvVars, auxVars, lsVars, locVars, dashVars, conversation, loading,
                  error, replyText, statusLoading >>

Viewer_deliverSendFetch(r) ==
  /\ route = "dash_viewer"
  /\ r \in inflight
  /\ r.kind = "vsendFetch"
  /\ FetchDone(r)
  /\ sending' = FALSE
  /\ replyText' = FALSE
  /\ inflight' = inflight \ {r}
  /\ UNCHANGED << srvVars, auxVars, lsVars, locVars, dashVars, statusLoading,
                  sendError >>

\* handleTakeover / handleReturnToBot -> updateStatus
Viewer_handleStatus ==
  /\ ViewerShown
  /\ ~statusLoading
  /\ CanIssue
  /\ LET newStatus == ViewerStatusButton(conversation.status) IN
       /\ statusLoading' = TRUE
       /\ srv' = IF ApiConvOk(routeProj)
                 THEN SrvSetStatus(srv, newStatus, clock) ELSE srv
       /\ inflight' = inflight
                        \cup {ApiWriteResp("vstatus", routeProj, newStatus)}
  /\ UNCHANGED << clock, expired, auxVars, lsVars, locVars, dashVars, conversation,
                  loading, error, replyText, sending, sendError >>

Viewer_deliverStatus(r) ==
  /\ route = "dash_viewer"
  /\ r \in inflight
  /\ r.kind = "vstatus"
  /\ IF r.ok
     THEN /\ inflight' = (inflight \ {r})
                           \cup {ApiConvResp("vstatusFetch", routeProj, srv)}
          /\ UNCHANGED << statusLoading, sendError >>
     ELSE /\ statusLoading' = FALSE
          /\ sendError' = TRUE
          /\ inflight' = inflight \ {r}
  /\ UNCHANGED << srvVars, auxVars, lsVars, locVars, dashVars, conversation, loading,
                  error, replyText, sending >>

Viewer_deliverStatusFetch(r) ==
  /\ route = "dash_viewer"
  /\ r \in inflight
  /\ r.kind = "vstatusFetch"
  /\ FetchDone(r)
  /\ statusLoading' = FALSE
  /\ inflight' = inflight \ {r}
  /\ UNCHANGED << srvVars, auxVars, lsVars, locVars, dashVars, replyText, sending,
                  sendError >>

\* ------------------------------------------------------------ environment
\* an end customer writes to the bot
CustomerMessage ==
  /\ srv.msgs < cap.msgs
  /\ srv' = SrvCustomer(srv)
  /\ UNCHANGED << clock, expired, auxVars, lsVars, locVars, portalType, selectedConv,
                  conv, conversation, conversations, loading, error, viewVars,
                  inflight >>

\* time passes; a hand-off whose window has passed ends
Tick ==
  /\ clock < MaxClock
  /\ clock' = clock + 1
  /\ srv' = SrvExpire(srv, clock + 1)
  /\ UNCHANGED << expired, auxVars, lsVars, locVars, portalType, selectedConv, conv,
                  conversation, conversations, loading, error, viewVars,
                  inflight >>

\* a live token reaches its expiry
TokenExpires(tk) ==
  /\ tk \notin expired
  /\ TokenType(tk) # "other"
  /\ expired' = expired \cup {tk}
  /\ UNCHANGED << clock, srv, auxVars, lsVars, locVars, portalType, selectedConv, conv,
                  conversation, conversations, loading, error, viewVars,
                  inflight >>

\* ---------------------------------------------------------- i18n provider
\* everything of the pages above that the provider never touches
pageState == << clock, srv, expired, routeProj, token, portalType,
                selectedConv, conv, conversation, conversations,
                replyText, sending, statusLoading, sendError, inflight,
                cap >>
\* the loading flag and the error message of the mounted page
formVars == << loading, error >>

NoSave == [pc |-> "idle", tenant |-> "none", loc |-> "none", ok |-> TRUE]

LocaleKeys == Tenants \cup {"global"}

\* resolveTenantId over the given local storage contents
resolveTenantId(user, tenant) ==
  IF user = "none" THEN tenant
  ELSE IF user = "admin" THEN tenant
  ELSE OwnTenant

\* tenantId ? `locale:${tenantId}` : 'locale'
savedKey(tenantId) == IF tenantId = "none" THEN "global" ELSE tenantId

\* the effect on [pathname]: the cleanup cancels the run before, the new
\* run takes the saved locale or asks the server for the tenant's
I18n_effect(user, tenant) ==
  LET tenantId == resolveTenantId(user, tenant)
      saved == lsLocale[savedKey(tenantId)]
      old == {[r EXCEPT !.cancelled = TRUE] : r \in resolves}
  IN  /\ locale' = IF saved # "none" THEN saved ELSE locale
      /\ resolves' =
           IF saved # "none" \/ tenantId = "none" THEN old
           ELSE old \cup {[tenant |-> tenantId, cancelled |-> FALSE,
                           serverLocale |-> srvLocale[tenantId]]}
      /\ Cardinality(resolves') <= MaxResolves
      /\ UNCHANGED lsLocale

\* the run after `await clientsAPI.get(tenantId)`
I18n_resolveDone(r) ==
  /\ r \in resolves
  /\ resolves' = resolves \ {r}
  /\ IF r.serverLocale # "none"
     THEN /\ lsLocale' = [lsLocale EXCEPT ![r.tenant] = r.serverLocale,
                                         !["global"] = r.serverLocale]
          /\ locale' = IF r.cancelled THEN locale ELSE r.serverLocale
     ELSE UNCHANGED << lsLocale, locale >>
  /\ UNCHANGED << pageState, formVars, histVars, apiVars, lsVars, route, srvLocale, cfgTenant,
                  save >>

setLocale(newLocale) ==
  /\ locale' = newLocale
  /\ lsLocale' = [lsLocale EXCEPT
                    ![savedKey(resolveTenantId(lsUser, lsTenant))] = newLocale,
                    !["global"] = newLocale]

SidebarRoutes == {"dash", "dash_config"}

\* Sidebar language menu, rendered for admins: setLocale(loc)
Sidebar_pickLanguage(loc) ==
  /\ route \in SidebarRoutes
  /\ lsUser = "admin"
  /\ setLocale(loc)
  /\ UNCHANGED << pageState, formVars, histVars, apiVars, lsVars, route, srvLocale, resolves,
                  cfgTenant, save >>

\* Sidebar handleSwitchClient: router.push('/admin')
Sidebar_handleSwitchClient ==
  /\ route \in SidebarRoutes
  /\ lsUser = "admin"
  /\ route' = "admin"
  /\ I18n_effect(lsUser, lsTenant)
  /\ UNCHANGED << pageState, formVars, histVars, apiVars, lsVars, srvLocale, cfgTenant, save >>

\* LoginPage.handleLogin with the provider mounted above it
I18n_handleLogin(role) ==
  /\ route = "login"
  /\ lsToken' = "jwt"
  /\ lsUser' = role
  /\ lsTenant' = IF role = "client" THEN OwnTenant ELSE lsTenant
  /\ route' = IF role = "admin" THEN "admin" ELSE "dash"
  /\ I18n_effect(role, lsTenant')
  /\ UNCHANGED << pageState, formVars, histVars, apiVars, srvLocale, cfgTenant, save >>

I18n_handleLogout ==
  /\ route \in SidebarRoutes \cup {"admin"}
  /\ lsToken' = "none"
  /\ lsUser' = "none"
  /\ lsTenant' = "none"
  /\ route' = "login"
  /\ I18n_effect("none", "none")
  /\ UNCHANGED << pageState, formVars, histVars, apiVars, srvLocale, cfgTenant, save >>

\* AdminDashboard.handleOpenDashboard with the provider mounted above it
I18n_handleOpenDashboard(c) ==
  /\ route = "admin"
  /\ lsUser = "admin"
  /\ lsTenant' = c
  /\ route' = "dash"
  /\ I18n_effect(lsUser, c)
  /\ UNCHANGED << pageState, formVars, histVars, apiVars, lsToken, lsUser, srvLocale, cfgTenant,
                  save >>

\* /dash/config mounts: ConfigIndexPage reads the tenant once
Config_mount ==
  /\ route = "dash"
  /\ route' = "dash_config"
  /\ cfgTenant' = resolveTenantId(lsUser, lsTenant)
  /\ I18n_effect(lsUser, lsTenant)
  /\ UNCHANGED << pageState, formVars, histVars, apiVars, lsVars, srvLocale, save >>

Config_leave ==
  /\ route = "dash_config"
  /\ route' = "dash"
  /\ cfgTenant' = "none"
  /\ I18n_effect(lsUser, lsTenant)
  /\ UNCHANGED << pageState, formVars, histVars, apiVars, lsVars, srvLocale, save >>

\* saveDashboardLanguage up to `await clientsAPI.get(tenantId)`; one save
\* is followed at a time
saveDashboardLanguage(newLocale) ==
  /\ route = "dash_config"
  /\ lsUser = "admin"
  /\ cfgTenant # "none"
  /\ save.pc = "idle"
  /\ \E ok \in BOOLEAN :
       save' = [pc |-> "get", tenant |-> cfgTenant, loc |-> newLocale,
                ok |-> ok]
  /\ UNCHANGED << pageState, formVars, histVars, apiVars, lsVars, route, locale, lsLocale,
                  srvLocale, resolves, cfgTenant >>

\* PATCH /api/clients/{id} with settings.locale, as the backend applies it
SrvUpdateLocale(t, loc, ok) ==
  IF ok THEN [srvLocale EXCEPT ![t] = loc] ELSE srvLocale

\* ... up to `await clientsAPI.update(tenantId, ...)`
Config_getDone ==
  /\ save.pc = "get"
  /\ IF save.ok
     THEN \E ok \in BOOLEAN :
            /\ srvLocale' = SrvUpdateLocale(save.tenant, save.loc, ok)
            /\ save' = [save EXCEPT !.pc = "update", !.ok = ok]
     ELSE /\ save' = NoSave
          /\ UNCHANGED srvLocale
  /\ UNCHANGED << pageState, formVars, histVars, apiVars, lsVars, route, locale, lsLocale,
                  resolves, cfgTenant >>

\* ... to the end: setLocale(newLocale), or the error message
Config_updateDone ==
  /\ save.pc = "update"
  /\ IF save.ok THEN setLocale(save.loc)
     ELSE UNCHANGED << locale, lsLocale >>
  /\ save' = NoSave
  /\ UNCHANGED << pageState, formVars, histVars, apiVars, lsVars, route, srvLocale, resolves,
                  cfgTenant >>

\* ------------------------------------------------------------- api client
Endpoints == {"login", "clients", "upload"}

NoAuth == "none"

\* the request interceptor after `await ensureInit()`, with the caller's
\* headers replacing the client's
InterceptMut(q, tok) ==
  [q EXCEPT !.auth = IF q.own THEN NoAuth ELSE tok]

\* the request interceptor after `await ensureInit()`:
\* if (token) config.headers.Authorization = `Bearer ${token}`
Intercept(q, tok) ==
  [q EXCEPT !.auth = IF tok # "none" THEN tok ELSE NoAuth]

\* api.get / api.post: the defaults are merged into the request, then the
\* interceptor starts and ensureInit starts the one config fetch
Api_call(e, own) ==
  /\ IF e = "login" THEN route = "login"
     ELSE route \in {"dash", "admin"} /\ lsUser # "none"
  /\ e = "upload" <=> own
  /\ Cardinality(pending) < MaxInflight
  /\ pending' = pending \cup {[client |-> "api", endpoint |-> e,
                               base |-> baseURL, own |-> own,
                               auth |-> NoAuth]}
  /\ initPromise' = IF initPromise = "none" THEN "pending" ELSE initPromise
  /\ IF e = "login"
     THEN ~loading /\ loading' = TRUE /\ error' = FALSE
     ELSE UNCHANGED formVars
  /\ UNCHANGED << pageState, histVars, i18nVars, lsVars, route, apiUrl,
                  baseURL, wire >>

\* resolveApiUrl after fetch('/api/config'), and ensureInit's then
Api_configDone(res) ==
  /\ initPromise = "pending"
  /\ apiUrl' = IF res = "env" THEN "env" ELSE "same-origin"
  /\ baseURL' = apiUrl'
  /\ initPromise' = "done"
  /\ UNCHANGED << pageState, formVars, histVars, i18nVars, lsVars, route, pending, wire >>

\* the interceptor resumes and the request goes out
Api_send(q) ==
  /\ q \in pending
  /\ q.client = "api"
  /\ initPromise = "done"
  /\ Cardinality(wire) < MaxInflight
  /\ pending' = pending \ {q}
  /\ wire' = wire \cup {Intercept(q, lsToken)}
  /\ UNCHANGED << pageState, formVars, histVars, i18nVars, lsVars, route, apiUrl, initPromise,
                  baseURL >>

Statuses == {200, 401, 500}

\* the backend requires the JWT everywhere but on the login
SrvStatus(r) ==
  IF r.endpoint # "login" /\ r.auth = NoAuth THEN {401}
  ELSE {200, 401, 500}

\* the page the browser is leaving has gone: /login is loaded, the module
\* state is new and what was under way is dropped
Reload ==
  /\ route = "leaving"
  /\ route' = "login"
  /\ apiUrl' = "null"
  /\ initPromise' = "none"
  /\ baseURL' = "same-origin"
  /\ pending' = {}
  /\ wire' = {}
  /\ loading' = FALSE
  /\ error' = FALSE
  /\ UNCHANGED << pageState, histVars, i18nVars, lsVars >>

\* a response interceptor that takes every error for a 401
TokenAfterMut(status, tok) == IF status # 200 THEN "none" ELSE tok

\* if (error.response?.status === 401) localStorage.removeItem('token')
TokenAfter(status, tok) == IF status = 401 THEN "none" ELSE tok

\* the response interceptor: on a 401 the token goes and
\* window.location.href = '/login' starts to replace the page, and the
\* error is rejected to the caller; then LoginPage.handleLogin's
\* continuation when the response is the login's
Api_response(r, status) ==
  /\ r \in wire
  /\ r.client = "api"
  /\ status \in SrvStatus(r)
  /\ wire' = wire \ {r}
  /\ IF r.endpoint = "login" /\ route = "login" /\ status = 200
     THEN /\ lsToken' = "jwt"
          /\ \E role \in {"admin", "client"} :
               /\ lsUser' = role
               /\ lsTenant' = IF role = "client" THEN OwnTenant ELSE lsTenant
               /\ route' = IF role = "admin" THEN "admin" ELSE "dash"
               /\ chosen' = (role = "client")
          /\ session' = "in"
          /\ error' = FALSE
          /\ loading' = FALSE
     ELSE /\ lsToken' = TokenAfter(status, lsToken)
          /\ route' = IF status = 401 THEN "leaving" ELSE route
          /\ session' = IF status = 401 /\ session = "in" THEN "dropped"
                        ELSE session
          /\ IF r.endpoint = "login" /\ route = "login"
             THEN error' = TRUE /\ loading' = FALSE
             ELSE UNCHANGED formVars
          /\ UNCHANGED << lsUser, lsTenant, chosen >>
  /\ UNCHANGED << pageState, i18nVars, apiUrl, initPromise, baseURL,
                  pending >>

\* makeRequest's config: { headers, ...config } and { headers,
\* ...dataOrConfig }, where a `headers` key of the caller's replaces the
\* headers built from the token
makeRequestAuth(own, tok) ==
  IF own THEN NoAuth ELSE IF tok # "none" THEN tok ELSE NoAuth

\* the api object built by makeRequest: the call awaits getApiUrl, which
\* starts the one config fetch
makeRequest(e, own) ==
  /\ e # "login"
  /\ route \in {"dash", "admin"} /\ lsUser # "none"
  /\ e = "upload" <=> own
  /\ Cardinality(pending) < MaxInflight
  /\ pending' = pending \cup {[client |-> "makeRequest", endpoint |-> e,
                               base |-> "unset", own |-> own,
                               auth |-> NoAuth]}
  /\ initPromise' = IF initPromise = "none" THEN "pending" ELSE initPromise
  /\ UNCHANGED << pageState, formVars, histVars, i18nVars, lsVars, route,
                  apiUrl, baseURL, wire >>

\* getApiUrl has resolved: fullUrl, token and headers are computed and
\* axios sends the request
makeRequest_send(q) ==
  /\ q \in pending
  /\ q.client = "makeRequest"
  /\ initPromise = "done"
  /\ Cardinality(wire) < MaxInflight
  /\ pending' = pending \ {q}
  /\ wire' = wire \cup {[q EXCEPT !.base = apiUrl,
                                  !.auth = makeRequestAuth(q.own, lsToken)]}
  /\ UNCHANGED << pageState, formVars, histVars, i18nVars, lsVars, route,
                  apiUrl, initPromise, baseURL >>

\* plain axios: the response reaches the caller, no interceptor
makeRequest_done(r) ==
  /\ r \in wire
  /\ r.client = "makeRequest"
  /\ wire' = wire \ {r}
  /\ UNCHANGED << pageState, formVars, histVars, i18nVars, lsVars, route,
                  apiUrl, initPromise, baseURL, pending >>

\* handleLogout taking away the token only, as the 401 handler does
Api_handleLogoutMut ==
  /\ route \in {"dash", "admin"}
  /\ lsToken' = "none"
  /\ route' = "login"
  /\ session' = "out"
  /\ chosen' = FALSE
  /\ loading' = FALSE /\ error' = FALSE
  /\ UNCHANGED << lsUser, lsTenant, pageState, i18nVars, apiVars >>

\* handleLogout: the entries go, router.push('/login')
Api_handleLogout ==
  /\ route \in {"dash", "admin"}
  /\ lsToken' = "none"
  /\ lsUser' = "none"
  /\ lsTenant' = "none"
  /\ route' = "login"
  /\ session' = "out"
  /\ chosen' = FALSE
  /\ loading' = FALSE /\ error' = FALSE
  /\ UNCHANGED << pageState, i18nVars, apiVars >>

\* AdminDashboard.handleOpenDashboard
Api_handleOpenDashboard(c) ==
  /\ route = "admin"
  /\ lsTenant' = c
  /\ chosen' = TRUE
  /\ route' = "dash"
  /\ loading' = FALSE /\ error' = FALSE
  /\ UNCHANGED << pageState, session, i18nVars, apiVars, lsToken, lsUser >>

\* a guarded page is opened by its address: DashLayout looks for 'user'
\* and for the tenant id, then sets ready
Api_visitDash ==
  /\ route # "dash"
  /\ route' = IF lsUser = "none" THEN "login"
              ELSE IF TenantOf = "none" THEN "admin"
              ELSE "dash"
  /\ loading' = FALSE /\ error' = FALSE
  /\ UNCHANGED << pageState, histVars, i18nVars, apiVars, lsVars >>

\* /live/{token} is opened in this browser
Api_visitLive ==
  /\ route # "live"
  /\ route' = "live"
  /\ loading' = FALSE /\ error' = FALSE
  /\ UNCHANGED << pageState, histVars, i18nVars, apiVars, lsVars >>

\* portalFetch: fetch(`${API_URL}${url}`, { headers: Content-Type only })
portalFetch ==
  /\ route = "live"
  /\ Cardinality(wire) < MaxInflight
  /\ wire' = wire \cup {[client |-> "portal", endpoint |-> "live",
                         base |-> "env", own |-> FALSE, auth |-> NoAuth]}
  /\ UNCHANGED << pageState, formVars, histVars, i18nVars, lsVars, route, apiUrl, initPromise,
                  baseURL, pending >>

portalFetchDone(r) ==
  /\ r \in wire
  /\ r.client = "portal"
  /\ wire' = wire \ {r}
  /\ UNCHANGED << pageState, formVars, histVars, i18nVars, lsVars, route, apiUrl, initPromise,
                  baseURL, pending >>

\* ------------------------------------------------------ specification
InitState ==
  /\ clock = 0
  /\ srv = NoConv
  /\ expired = {}
  /\ lsToken = "none"
  /\ lsUser = "none"
  /\ lsTenant = "none"
  /\ route = "login"
  /\ routeProj = "none"
  /\ token = "none"
  /\ portalType = "null"
  /\ selectedConv = NoConv
  /\ conv = NoConv
  /\ conversation = NoConv
  /\ conversations = << >>
  /\ loading = FALSE
  /\ error = FALSE
  /\ replyText = FALSE
  /\ sending = FALSE
  /\ statusLoading = FALSE
  /\ sendError = FALSE
  /\ inflight = {}
  /\ locale = "pt"
  /\ lsLocale = [k \in LocaleKeys |-> "none"]
  /\ srvLocale = [t \in Tenants |-> "none"]
  /\ resolves = {}
  /\ cfgTenant = "none"
  /\ save = NoSave
  /\ apiUrl = "null"
  /\ initPromise = "none"
  /\ baseURL = "same-origin"
  /\ pending = {}
  /\ wire = {}
  /\ session = "none"
  /\ chosen = FALSE

Init == InitState /\ cap = [inflight |-> MaxInflight, msgs |-> MaxMsgs]

Deliver ==
  \E r \in inflight :
    \/ DeliverDetect(r)
    \/ DeliverList(r)
    \/ DeliverOpen(r)
    \/ DeliverPoll(r)
    \/ Live_deliverSend(r)
    \/ Live_deliverSendRefetch(r)
    \/ Live_deliverStatus(r)
    \/ Live_deliverStatusRefetch(r)
    \/ Live_deliverFollowup(r)
    \/ DeliverPlain(r)
    \/ Agents_deliver(r)
    \/ Dash_deliverList(r)
    \/ Dash_deliverQuick(r)
    \/ Viewer_deliverFetch(r)
    \/ Viewer_deliverSend(r)
    \/ Viewer_deliverSendFetch(r)
    \/ Viewer_deliverStatus(r)
    \/ Viewer_deliverStatusFetch(r)

Next ==
  \/ \E tk \in Tokens : VisitLive(tk)
  \/ \E r \in DashRoutes, p \in Tenants : VisitDash(r, p)
  \/ VisitAdmin
  \/ VisitAgents
  \/ Sidebar_openAgents
  \/ VisitLogin
  \/ \E role \in {"admin", "client"} : handleLogin(role)
  \/ handleLogout
  \/ \E c \in Tenants : handleOpenDashboard(c)
  \/ ListPollTick
  \/ openConversation
  \/ onBack
  \/ ViewPollTick
  \/ Live_typeReply
  \/ Live_handleSend
  \/ handleStatusChange
  \/ handleFollowup
  \/ handleQuickStatus
  \/ openViewer
  \/ Viewer_pollTick
  \/ refresh
  \/ Viewer_typeReply
  \/ Viewer_handleSend
  \/ Viewer_handleStatus
  \/ Deliver
  \/ CustomerMessage
  \/ \E tk \in Tokens : TokenExpires(tk)

Spec == Init /\ [][Next]_vars

\* another staff member takes the conversation over from another browser
AgentTakesOver ==
  /\ srv.status = "open"
  /\ srv' = SrvSetStatus(srv, "handoff", clock)
  /\ UNCHANGED << clock, expired, auxVars, lsVars, locVars, portalType, selectedConv,
                  conv, conversation, conversations, loading, error, viewVars,
                  inflight >>

\* the views left alone: timers, responses and backend-side changes only
PollDeliver ==
  \E r \in inflight :
    \/ DeliverDetect(r)
    \/ DeliverList(r)
    \/ DeliverOpen(r)
    \/ DeliverPoll(r)
    \/ DeliverPlain(r)
    \/ Dash_deliverList(r)
    \/ Viewer_deliverFetch(r)

PollNext ==
  \/ \E tk \in Tokens : VisitLive(tk)
  \/ \E r \in DashRoutes, p \in Tenants : VisitDash(r, p)
  \/ handleLogin("client")
  \/ handleLogout
  \/ openConversation
  \/ openViewer
  \/ ListPollTick
  \/ ViewPollTick
  \/ Viewer_pollTick
  \/ PollDeliver
  \/ CustomerMessage
  \/ AgentTakesOver
  \/ Tick

\* setInterval fires whatever else happens, and the reply to a request of
\* each kind arrives
PollFairness ==
  /\ SF_vars(ListPollTick)
  /\ SF_vars(ViewPollTick)
  /\ SF_vars(Viewer_pollTick)
  /\ WF_vars(\E r \in inflight : DeliverDetect(r))
  /\ WF_vars(\E r \in inflight : DeliverList(r))
  /\ WF_vars(\E r \in inflight : DeliverOpen(r))
  /\ WF_vars(\E r \in inflight : DeliverPoll(r))
  /\ WF_vars(\E r \in inflight : Viewer_deliverFetch(r))

PollSpec == Init /\ [][PollNext]_vars /\ PollFairness

\* the two conversation views with their requests overlapping: the timers
\* do not wait for a response, and neither does the refresh button
RaceInit ==
  InitState /\ cap = [inflight |-> MaxInflight + 1, msgs |-> MaxMsgs + 1]

RaceDeliver ==
  \E r \in inflight :
    \/ DeliverDetect(r)
    \/ DeliverList(r)
    \/ DeliverOpen(r)
    \/ DeliverPoll(r)
    \/ Live_deliverSend(r)
    \/ Live_deliverSendRefetch(r)
    \/ Live_deliverStatus(r)
    \/ Live_deliverStatusRefetch(r)
    \/ Viewer_deliverFetch(r)
    \/ Viewer_deliverSend(r)
    \/ Viewer_deliverSendFetch(r)
    \/ Viewer_deliverStatus(r)
    \/ Viewer_deliverStatusFetch(r)

RaceNext ==
  \/ \E tk \in Tokens : VisitLive(tk)
  \/ handleLogin("client")
  \/ VisitDash("dash_viewer", OwnTenant)
  \/ openConversation
  \/ ViewPollTick
  \/ Live_typeReply
  \/ Live_handleSend
  \/ handleStatusChange
  \/ Viewer_pollTick
  \/ refresh
  \/ Viewer_typeReply
  \/ Viewer_handleSend
  \/ Viewer_handleStatus
  \/ RaceDeliver
  \/ CustomerMessage

RaceSpec == RaceInit /\ [][RaceNext]_vars

\* the i18n provider with the pages that change the locale or the tenant
LocaleNext ==
  \/ \E role \in {"admin", "client"} : I18n_handleLogin(role)
  \/ I18n_handleLogout
  \/ \E c \in Tenants : I18n_handleOpenDashboard(c)
  \/ Sidebar_handleSwitchClient
  \/ \E loc \in Locales : Sidebar_pickLanguage(loc)
  \/ Config_mount
  \/ Config_leave
  \/ \E loc \in Locales : saveDashboardLanguage(loc)
  \/ Config_getDone
  \/ Config_updateDone
  \/ \E r \in resolves : I18n_resolveDone(r)

SpecLocale == Init /\ [][LocaleNext]_vars

\* the api client and the requests of the pages
ApiNext ==
  \/ \E e \in Endpoints, own \in BOOLEAN : Api_call(e, own)
  \/ \E res \in {"env", "fail"} : Api_configDone(res)
  \/ \E q \in pending : Api_send(q)
  \/ \E e \in Endpoints, own \in BOOLEAN : makeRequest(e, own)
  \/ \E q \in pending : makeRequest_send(q)
  \/ \E r \in wire : makeRequest_done(r)
  \/ \E r \in wire, status \in Statuses : Api_response(r, status)
  \/ Reload
  \/ Api_handleLogout
  \/ \E c \in Tenants : Api_handleOpenDashboard(c)
  \/ Api_visitDash
  \/ Api_visitLive
  \/ portalFetch
  \/ \E r \in wire : portalFetchDone(r)

SpecApi == Init /\ [][ApiNext]_vars

\* ================================================================ claims
LiveWriteKinds == {"send", "status", "followup"}

\* C1: with a live_view token the conversation view is read-only: no
\* POST .../send, PATCH .../status or PATCH .../followup request is ever
\* in flight; such a request exists only while portalType is 'portal'.
C1_LiveViewReadOnly ==
  route = "live" =>
    \A r \in inflight :
      r.kind \in LiveWriteKinds => portalType = "portal"

\* a live_view conversation is on screen and its poll is in flight
C1_Witness ==
  /\ portalType = "live_view"
  /\ ViewMounted
  /\ \E r \in inflight : r.kind = "poll"

\* C2: every tenant-scoped request names the tenant of the logged-in user:
\* the client's own client_id, or the admin's active_tenant_id.
C2_TenantScoped ==
  \A r \in inflight :
    (route # "live" /\ r.proj # "none") => r.proj = TenantOf

StatusKinds == {"status", "vstatus", "quick"}

\* the status the issuing view displays
ShownStatus(kind) ==
  IF kind = "status" THEN conv.status
  ELSE IF kind = "vstatus" THEN conversation.status
  ELSE IF Len(conversations) > 0 THEN conversations[1].status
  ELSE "none"

\* C3: every status request of the viewer, the list quick action and the
\* portal asks for 'handoff' exactly when the view does not display
\* 'handoff', and for 'open' exactly when it does; never for another value
\* and never for the displayed one.
C3_HandoffTransitions ==
  [][\A r \in inflight' \ inflight :
       r.kind \in StatusKinds =>
         /\ r.st \in {"handoff", "open"}
         /\ r.st # ShownStatus(r.kind)
         /\ (r.st = "handoff") <=> (ShownStatus(r.kind) # "handoff")
         /\ (r.st = "open") <=> (ShownStatus(r.kind) = "handoff")]_vars

\* a return-to-bot request is in flight while the view still shows hand-off
C3_Witness ==
  \E r \in inflight :
    /\ r.kind = "vstatus"
    /\ r.st = "open"
    /\ conversation.status = "handoff"

\* the three polling views and the staff list, while their requests succeed
ViewerOpen == route = "dash_viewer" /\ ApiConvOk(routeProj)
PortalViewOpen == route = "live" /\ ViewMounted
PortalListOpen == route = "live" /\ portalType = "portal"
StaffListOpen == route = "dash_list" /\ ~loading

\* a view displays a hand-off whose human_takeover_until has passed
ViewerShowsExpired ==
  ViewerOpen /\ conversation.status = "handoff" /\ clock > conversation.until
PortalViewShowsExpired ==
  PortalViewOpen /\ conv.status = "handoff" /\ clock > conv.until
PortalListShowsExpired ==
  /\ PortalListOpen
  /\ \E i \in 1..Len(conversations) :
       conversations[i].status = "handoff" /\ clock > conversations[i].until
StaffListShowsExpired ==
  /\ StaffListOpen
  /\ \E i \in 1..Len(conversations) :
       conversations[i].status = "handoff" /\ clock > conversations[i].until

\* the backend keeps changing the conversation for ever
SrvKeepsChanging == []<><<srv' # srv>>_vars

LiveDeliver(r) ==
  \/ DeliverDetect(r)
  \/ DeliverList(r)
  \/ DeliverOpen(r)
  \/ DeliverPoll(r)
  \/ Live_deliverSend(r)
  \/ Live_deliverSendRefetch(r)
  \/ Live_deliverStatus(r)
  \/ Live_deliverStatusRefetch(r)
  \/ Live_deliverFollowup(r)

\* C5 as stated: once the token has expired and the page has seen a
\* request rejected, it shows 'Link Indisponivel' instead of content.
C5_ExpiredShowsError ==
  (route = "live" /\ token \in expired /\ error) => Screen = "error"

\* C5 amended: a rejected request leaves the loaded list and conversation
\* displayed as they were, and 'Link Indisponivel' replaces them only when
\* no list entry and no conversation had been loaded.
C5_ExpiredKeepsContent ==
  /\ [][\A r \in inflight :
          (~r.ok /\ LiveDeliver(r)) =>
            /\ conversations' = conversations
            /\ selectedConv' = selectedConv
            /\ conv' = conv]_vars
  /\ [](route = "live" /\ token \in expired /\ error =>
          (Screen = "error" <=>
             (Len(conversations) = 0 /\ selectedConv = NoConv)))

\* the token has expired, a rejection has arrived, the list is still shown
C5_Witness ==
  /\ route = "live"
  /\ token \in expired
  /\ error
  /\ Screen = "list"
  /\ Len(conversations) > 0
  /\ \A r \in inflight : ~r.ok

\* C6: while a polling view is open it keeps re-fetching, and unless the
\* backend keeps changing the conversation for ever, the staff viewer, the
\* portal conversation view and the portal list each come to display the
\* backend's current status and messages, with no user action.
C6_PollingUpdates ==
  /\ []<>(ViewerOpen => \E r \in inflight : r.kind = "fetch")
  /\ []<>(PortalViewOpen => \E r \in inflight : r.kind = "poll")
  /\ []<>(PortalListOpen => \E r \in inflight : r.kind = "list")
  /\ \/ SrvKeepsChanging
     \/ []<>(/\ ViewerOpen => conversation = srv
             /\ PortalViewOpen => conv = srv
             /\ PortalListOpen => conversations = SrvList(OwnTenant))

\* the portal conversation view shows fewer messages than the backend holds
\* and the poll that carries them is in flight
C6_Witness ==
  /\ PortalViewOpen
  /\ portalType = "portal"
  /\ conv.msgs < srv.msgs
  /\ \E r \in inflight : r.kind = "poll" /\ r.ok /\ r.snap = srv

\* C7: a successful detection puts the page in portal mode, with the list
\* load started, exactly when the reply has type 'portal', and in live_view
\* mode showing the returned conversation exactly when the reply is not of
\* type 'portal' and carries messages; the list is rendered only in portal
\* mode.
C7_TokenTypeDetection ==
  /\ [][\A r \in inflight :
          (r.ok /\ DeliverDetect(r)) =>
            /\ (portalType' = "portal") <=> (r.type = "portal")
            /\ (portalType' = "live_view") <=>
                 (r.type # "portal" /\ r.snap # NoConv)
            /\ portalType' = "portal" =>
                 \E x \in inflight' : x.kind = "list"
            /\ portalType' = "live_view" =>
                 (selectedConv' = r.snap /\ conv' = r.snap
                    /\ Screen' = "conversation")]_vars
  /\ [](Screen = "list" => portalType = "portal")
  /\ [](Screen = "conversation" /\ portalType # "portal" =>
          (portalType = "live_view" /\ TokenType(token) = "live_view"))

\* a live_view token was detected and its conversation is on screen
C7_Witness ==
  /\ route = "live"
  /\ portalType = "live_view"
  /\ Screen = "conversation"
  /\ selectedConv # NoConv

LocaleOf(t) ==
  IF lsLocale[t] # "none" THEN lsLocale[t]
  ELSE IF srvLocale[t] # "none" THEN srvLocale[t]
  ELSE "pt"

\* C9: after a completed locale change, by the sidebar menu or by the
\* configuration page, the tenant's server-side locale, its local storage
\* entry and the locale in memory are equal; a failed save changes none.
C9_LocalePersistedAndMirrored ==
  [][/\ ((\E loc \in Locales : Sidebar_pickLanguage(loc))
           \/ (Config_updateDone /\ save.ok)) =>
          LET t == resolveTenantId(lsUser, lsTenant) IN
            t # "none" =>
              (srvLocale'[t] = locale' /\ lsLocale'[t] = locale')
     /\ ((Config_getDone \/ Config_updateDone) /\ ~save.ok) =>
          UNCHANGED << srvLocale, lsLocale, locale >>]_vars

\* C10: while the dashboard shows a tenant and no resolution or save is
\* under way, the locale in memory is the one stored for that tenant, or
\* 'pt' when it has none.
C10_LocaleKeyedByTenant ==
  (/\ route \in SidebarRoutes
   /\ resolveTenantId(lsUser, lsTenant) # "none"
   /\ \A r \in resolves : r.cancelled
   /\ save.pc = "idle") =>
    locale = LocaleOf(resolveTenantId(lsUser, lsTenant))

\* ------------------------------------------------------------------ C11
\* C11: handleLogout removes token, user and the active tenant from local
\* storage and leads to /login; from then until the next successful login
\* local storage stays empty, no /dash route is shown, and every visit to
\* a /dash route ends on /login.
C11_LogoutEndsSession ==
  [][/\ Api_handleLogout =>
          /\ lsToken' = "none" /\ lsUser' = "none" /\ lsTenant' = "none"
          /\ route' = "login"
     /\ session' = "out" =>
          /\ lsToken' = "none" /\ lsUser' = "none" /\ lsTenant' = "none"
          /\ route' # "dash"
     /\ (session = "out" /\ Api_visitDash) => route' = "login"]_vars

\* a logged-out browser on /live is sent to /login when it opens /dash
C11_Witness ==
  /\ session = "out"
  /\ route = "live"
  /\ lsUser = "none"
  /\ ENABLED Api_visitDash

\* ------------------------------------------------------------------ C12
LoginResponse(status) ==
  \E r \in wire : r.endpoint = "login" /\ route = "login"
                  /\ Api_response(r, status)

\* C12: a successful login stores token and user, gives a client its own
\* tenant and leads to /admin for an admin and to /dash otherwise; a failed
\* login leaves local storage and the route as they were, shows an error
\* and ends with loading false.
C12_LoginOutcome ==
  [][/\ LoginResponse(200) =>
          /\ lsToken' = "jwt"
          /\ lsUser' \in {"admin", "client"}
          /\ lsUser' = "client" => lsTenant' = OwnTenant
          /\ route' = IF lsUser' = "admin" THEN "admin" ELSE "dash"
     /\ \A status \in Statuses \ {200} :
          LoginResponse(status) =>
            /\ UNCHANGED << lsToken, lsUser, lsTenant, route >>
            /\ error'
            /\ ~loading']_vars

\* ------------------------------------------------------------------ C13
\* a response has been applied to the staff viewer, or to the portal view
ViewerApplied == ViewerOpen /\ route' = route /\ conversation' # NoConv
PortalApplied == PortalViewOpen /\ route' = route /\ conv' # NoConv

\* C13: whatever the order in which the responses to polls, refreshes and
\* the refetches after a send or a status change complete, a view never
\* replaces a snapshot by an older one: it loses no message it showed, and
\* a view that shows the backend's present state keeps showing it.
C13_NeverRegresses ==
  [][/\ ViewerApplied =>
          /\ conversation'.msgs >= conversation.msgs
          /\ (conversation = srv /\ srv' = srv) => conversation' = srv
     /\ PortalApplied =>
          /\ conv'.msgs >= conv.msgs
          /\ (conv = srv /\ srv' = srv) => conv' = srv]_vars

\* ------------------------------------------------------------------ C14
SendKinds == {"send", "vsend"}

\* a POST .../send leaves the view
SendIssued == Viewer_handleSend \/ Live_handleSend

\* C14: a view issues a send only while none of its sends is pending, the
\* `sending` flag is up as long as one is, and a send that ends with the
\* typed reply still in the box is one the backend refused; so a typed
\* reply reaches the backend at most once.
C14_OneSendInFlight ==
  [][/\ SendIssued =>
          /\ ~sending
          /\ ~\E r \in inflight : r.kind \in SendKinds
     /\ (\E r \in inflight' : r.kind \in SendKinds) => sending'
     /\ (sending /\ ~sending' /\ replyText') =>
          \E r \in inflight \ inflight' : r.kind \in SendKinds /\ ~r.ok]_vars

\* a send is pending, the reply is still in the box and the network would
\* take another request
C14_Witness ==
  /\ sending
  /\ replyText
  /\ CanIssue
  /\ srv.msgs < cap.msgs
  /\ \E r \in inflight : r.kind \in SendKinds /\ r.ok

\* ------------------------------------------------------------------ C15
ApiClients == {"api", "makeRequest"}

\* C15: every request an api client sends while a token is stored carries
\* that token, whether or not the caller passed headers of its own.
C15_HeadersKeepAuthorization ==
  [][\A r \in wire' \ wire :
       (r.client \in ApiClients /\ lsToken # "none") => r.auth = lsToken]_vars

\* ------------------------------------------------------------------ C16
\* C16: every request an api client sends goes to the API URL that the
\* /api/config lookup resolved, also when the call was made before the
\* lookup had completed.
C16_SentToResolvedUrl ==
  [][\A r \in wire' \ wire :
       r.client \in ApiClients => r.base = apiUrl]_vars

\* ------------------------------------------------------------------ C17
\* C17: dashboard content is rendered only with a user, a token and a
\* resolvable tenant id in local storage; once a 401 has removed the token
\* it is not rendered again before the next successful login.
C17_GuardNeedsSession ==
  /\ route = "dash" =>
       lsUser # "none" /\ lsToken # "none" /\ TenantOf # "none"
  /\ session = "dropped" => route # "dash"

\* ------------------------------------------------------------------ C18
\* C18: after a login, the tenant the /dash pages work with is the user's
\* own client or one written to local storage during this session, never
\* one left there by an earlier session.
C18_TenantOfThisSession ==
  (session = "in" /\ route = "dash") =>
    \/ lsUser = "client" /\ TenantOf = OwnTenant
    \/ lsUser = "admin" /\ chosen

\* ------------------------------------------------------------------ C19
\* C19: in the portal conversation view, when a response that belongs to
\* handleSend or handleStatusChange raises sendError, that response is the
\* refusal of the POST .../send or of the PATCH .../status itself.
C19_ErrorOnlyIfActionFailed ==
  [][\A r \in inflight \ inflight' :
       (/\ PortalViewOpen
        /\ r.kind \in {"send", "sendRefetch", "status", "statusRefetch"}
        /\ ~sendError /\ sendError') =>
         r.kind \in {"send", "status"} /\ ~r.ok]_vars

\* ------------------------------------------------------------------ C20
\* C20: a response with status 401 takes the token, and nothing else, out
\* of local storage and makes the browser leave for /login, where it
\* arrives; the caller still gets the error; a response with another
\* status changes neither local storage nor the route, but for what
\* LoginPage does with a successful login.
C20_Only401EndsSession ==
  [][/\ \A r \in wire, status \in Statuses :
          Api_response(r, status) =>
            /\ status = 401 =>
                 /\ lsToken' = "none" /\ route' = "leaving"
                 /\ UNCHANGED << lsUser, lsTenant >>
            /\ (status # 401 /\ ~(r.endpoint = "login" /\ status = 200)) =>
                 UNCHANGED << lsToken, lsUser, lsTenant, route >>
            /\ (status # 200 /\ r.endpoint = "login" /\ route = "login") =>
                 error' /\ ~loading'
     /\ Reload => route' = "login" /\ UNCHANGED << lsToken, lsUser, lsTenant >>
     /\ route = "leaving" => ENABLED Reload]_vars

\* a 401 on a request of a logged-in user: the token is gone, the user is
\* still stored and the browser is on its way to /login
C20_Witness ==
  /\ session = "dropped"
  /\ route = "leaving"
  /\ lsToken = "none"
  /\ lsUser # "none"

\* ------------------------------------------------------------------ C21
\* C21: the client-management page and the pages behind the adminOnly
\* entries are shown, and their data is requested, only for a user with
\* role 'admin'.
C21_AdminOnlyAreas ==
  /\ route \in {"admin", "dash_agents"} => lsUser = "admin"
  /\ \A r \in inflight : r.kind \in {"clients", "agents"} => lsUser = "admin"

====
